---- MODULE Spec2Model ----
(***************************************************************************)
(* BOOM-Card recommendation engine: the offline trainer                    *)
(* (ml/models/recommendation/train.py), the Spark feature job              *)
(* (data-pipeline/spark/jobs/recommendations.py), the full-featured        *)
(* backend's serving handlers (backend_fixed_full.py) and the serving      *)
(* cache / hybrid scorer contract of spec.md sections 4.5-4.7.             *)
(***************************************************************************)
EXTENDS Integers, Sequences, FiniteSets, TLC

(***************************************************************************)
(* Bounds of the model.                                                    *)
(***************************************************************************)
\* training runs one behaviour performs
MaxRuns == 2
\* completed transactions one (user, partner) pair has in a fetched window
MaxPairCount == 1

\* user ids and partner ids of the training data
TrainUsers == 1..2
TrainPartners == 1..2
\* RecommendationEngine.__init__: config.get('num_recommendations', 20)
num_recommendations == 20
\* RecommendationEngine.__init__: config.get('min_interactions', 5)
min_interactions == 5
\* feature job: the oldest interaction age drawn, in days
MaxDaysAgo == 95
\* feature job: the largest partner_views.view_count drawn
MaxViewCount == 7
\* feature job: rows one (user, partner) pair has in interactions_df
MaxRowsPerPair == 3
\* backend: seconds the clock advances, transactions and reviews recorded
MaxTime == 1
MaxTransactions == 1
MaxReviews == 2
\* serving layer: the largest trending score one partner has
MaxTrending == 1
\* analytics DAG: task runs, and the days the clock advances
MaxDagRuns == 2
MaxCacheDays == 8
\* Spark job run twice: the latest day a run starts
MaxRunDay == 9
\* pre-phase-1 backend: register requests
MaxRegisterRequests == 4
\* enterprise backend: rows of the users table
MaxEntUsers == 2

VARIABLES
    \* ---- RecommendationModelTrainer (train.py) ----
    pc,                   \* position of the current training run
    run,                  \* number of runs started so far
    df,                   \* fetched training data: (user, partner) -> row count
    user_item_matrix,     \* the matrix create_user_item_matrix returned
    models,               \* self.models
    user_mapping,         \* self.user_mapping
    item_mapping,         \* self.item_mapping
    reverse_item_mapping, \* self.reverse_item_mapping
    map_run,              \* history: the run that assigned the mappings (0: none)
    snapshot,             \* history: the trainer's fields when the run started
    error,                \* the exception that ended the run ("none": none)
    \* ---- full-featured backend (backend_fixed_full.py) ----
    users,                \* db.users: id -> User
    partners,             \* db.partners: id -> Partner
    transactions,         \* db.transactions
    reviews,              \* db.reviews
    sessions,             \* db.sessions: token -> user id
    clock,                \* datetime.now().timestamp()
    response,             \* the last response a handler returned
    \* ---- RecommendationEngine (spark/jobs/recommendations.py) ----
    raw_rows,             \* two rows of the interactions query's join
    ratings,              \* their "rating" column (<<>>: not computed yet)
    days_ago,             \* the days_ago column of two interactions
    recency_weight,       \* their recency_weight column, in tenths
    interactions_df,      \* interactions_df: (user, partner) -> row count
    filtered_df,          \* the frame preprocess_data returns (<<>>: not yet)
    \* ---- serving layer and Serving Cache (spec.md 4.6, 4.7, 7) ----
    trending_df,          \* partner -> redemption_count * 2 + view_count
    cache,                \* key -> entry written by put(key, ranked_list, ttl)
    cache_generation,     \* the training run whose lists the cache holds
    cache_up,             \* FALSE: the cache raises CacheUnavailableError
    served,               \* the last answer of the serving layer
    \* ---- Hybrid Scorer (spec.md 4.5) ----
    cf_score,             \* partner -> collaborative score, in tenths
    cb_score,             \* partner -> content similarity, in tenths
    preferred,            \* partners of preferred categories, not interacted
    redeemed_days_ago,    \* partner -> age of the user's last redemption
    ranked,               \* score(user_id)'s result (NotScored: not yet)
    ranked_scores,        \* the score next to each partner of the result
    \* ---- create_user_item_matrix on any frame (train.py) ----
    frame,                \* df: (user, partner) -> the implicit_rating of its rows
    built,                \* what create_user_item_matrix(frame) returned and assigned
    \* ---- Collaborative Model predict (spec.md 4.3) ----
    prediction,           \* the last predict(user_id, partner_id) call and its result
    \* ---- trending_query (spark/jobs/recommendations.py) ----
    redemptions,          \* (user, partner) -> ages in days of the user's redemptions
    partner_views,        \* (user, partner) -> age of last_viewed_at, if a row exists
    trending_list,        \* the trending ranking (NotRanked: not computed yet)
    \* ---- Redis as written by the analytics DAG (airflow/dags/analytics.py) ----
    redis_store,          \* key -> the entry SETEX stored
    redis_now,            \* days since the first task run
    dag_runs,             \* task runs so far
    redis_reply,          \* the last GET and its reply
    \* ---- preprocess_data run again on the same interactions ----
    interaction,          \* the interactions row both runs read
    weighted_rating,      \* per run, the row's features
    \* ---- the two model fits of one run (spec 5) ----
    fit_matrix,           \* the user-item matrix both fits may read
    fit_features,         \* the feature table both fits may read
    fit_pc,               \* each fit's position
    fit_local,            \* each fit's working copy of what it read
    fit_models,           \* the run's fitted models, by name
    \* ---- pre-phase-1 backend (backend_pre_phase1.py) ----
    pre_users,            \* users: user id -> email
    pre_sessions,         \* sessions: token -> user id
    register_thread,      \* each worker thread's position in register
    register_requests,    \* register requests accepted so far
    register_response,    \* the last answer of register
    \* ---- enterprise backend (backend/boom_card_enterprise.py) ----
    ent_users,            \* the users table, in insertion order
    ent_issued,           \* the tokens login has issued
    ent_response          \* the last answer of an endpoint

trainerVars == <<pc, run, df, user_item_matrix, models, user_mapping,
                 item_mapping, reverse_item_mapping, map_run, snapshot,
                 error>>

backendVars == <<users, partners, transactions, reviews, sessions, clock,
                 response>>

engineVars == <<raw_rows, ratings, days_ago, recency_weight, interactions_df,
                filtered_df>>

servingVars == <<trending_df, cache, cache_generation, cache_up, served>>

scorerVars == <<cf_score, cb_score, preferred, redeemed_days_ago, ranked,
                ranked_scores>>

builderVars == <<frame, built>>

predictVars == <<prediction>>

trendingVars == <<redemptions, partner_views, trending_list>>

redisVars == <<redis_store, redis_now, dag_runs, redis_reply>>

rerunVars == <<interaction, weighted_rating>>

fitVars == <<fit_matrix, fit_features, fit_pc, fit_local, fit_models>>

preVars == <<pre_users, pre_sessions, register_thread, register_requests,
             register_response>>

entVars == <<ent_users, ent_issued, ent_response>>

vars == <<trainerVars, backendVars, engineVars, servingVars, scorerVars,
          builderVars, predictVars, trendingVars, redisVars, rerunVars,
          fitVars, preVars, entVars>>

\* what the actions of one component leave alone
notTrainer == <<backendVars, engineVars, servingVars, scorerVars,
                builderVars, predictVars, trendingVars, redisVars, rerunVars,
                fitVars, preVars, entVars>>
notBackend == <<trainerVars, engineVars, servingVars, scorerVars,
                builderVars, predictVars, trendingVars, redisVars, rerunVars,
                fitVars, preVars, entVars>>
notEngine == <<trainerVars, backendVars, servingVars, scorerVars,
               builderVars, predictVars, trendingVars, redisVars, rerunVars,
               fitVars, preVars, entVars>>
notServing == <<trainerVars, backendVars, engineVars, scorerVars,
                builderVars, predictVars, trendingVars, redisVars, rerunVars,
                fitVars, preVars, entVars>>
notScorer == <<trainerVars, backendVars, engineVars, servingVars,
               builderVars, predictVars, trendingVars, redisVars, rerunVars,
               fitVars, preVars, entVars>>
notBuilder == <<trainerVars, backendVars, engineVars, servingVars,
                scorerVars, predictVars, trendingVars, redisVars, rerunVars,
                fitVars, preVars, entVars>>
notPredict == <<trainerVars, backendVars, engineVars, servingVars,
                scorerVars, builderVars, trendingVars, redisVars, rerunVars,
                fitVars, preVars, entVars>>
notTrending == <<trainerVars, backendVars, engineVars, servingVars,
                 scorerVars, builderVars, predictVars, redisVars, rerunVars,
                 fitVars, preVars, entVars>>
notRedis == <<trainerVars, backendVars, engineVars, servingVars, scorerVars,
              builderVars, predictVars, trendingVars, rerunVars, fitVars,
              preVars, entVars>>
notRerun == <<trainerVars, backendVars, engineVars, servingVars, scorerVars,
              builderVars, predictVars, trendingVars, redisVars, fitVars,
              preVars, entVars>>
notFit == <<trainerVars, backendVars, engineVars, servingVars, scorerVars,
            builderVars, predictVars, trendingVars, redisVars, rerunVars,
            preVars, entVars>>
notPre == <<trainerVars, backendVars, engineVars, servingVars, scorerVars,
            builderVars, predictVars, trendingVars, redisVars, rerunVars,
            fitVars, entVars>>
notEnt == <<trainerVars, backendVars, engineVars, servingVars, scorerVars,
            builderVars, predictVars, trendingVars, redisVars, rerunVars,
            fitVars, preVars>>

(***************************************************************************)
(* RecommendationModelTrainer                                              *)
(***************************************************************************)
\* the empty dict / an attribute not assigned yet
EmptyDict == <<>>

\* the trainer's fields a serving-time reader follows
Artifact ==
    [models |-> models, user_mapping |-> user_mapping,
     item_mapping |-> item_mapping,
     reverse_item_mapping |-> reverse_item_mapping, map_run |-> map_run]

\* fetch_training_data's CASE over user_partner_count
implicit_rating(user_partner_count) ==
    IF user_partner_count > 3 THEN 5
    ELSE IF user_partner_count > 2 THEN 4
    ELSE IF user_partner_count > 1 THEN 3
    ELSE 2

\* the windows of data a run can fetch: every (user, partner) pair has
\* 0..MaxPairCount completed transactions
TrainingData == [TrainUsers \X TrainPartners -> 0..MaxPairCount]

\* user ids / partner ids with at least one row
df_users(d) == {u \in TrainUsers : \E p \in TrainPartners : d[<<u, p>>] > 0}
df_partners(d) == {p \in TrainPartners : \E u \in TrainUsers : d[<<u, p>>] > 0}

\* an enumerate() whose index is never advanced
enumerate_index_constant(S) == [x \in S |-> 0]

\* enumerate() over a sorted pandas index: id -> position
enumerate_index(S) == [x \in S |-> Cardinality({y \in S : y < x})]

\* df.pivot_table(index=user_id, columns=partner_id, values=implicit_rating,
\* fill_value=0): every row of one (user, partner) pair carries the same
\* implicit_rating (it is a function of the pair's count), so the default
\* aggregation (mean) of a cell is that rating; a pair without rows is 0
pivot_table(d) ==
    [u \in df_users(d) |->
        [p \in df_partners(d) |->
            IF d[<<u, p>>] > 0 THEN implicit_rating(d[<<u, p>>]) ELSE 0]]

Min2(a, b) == IF a < b THEN a ELSE b

\* n_components = min(50, shape[0] - 1, shape[1] - 1)
shape0(m) == Cardinality(DOMAIN m)
shape1(m) ==
    IF DOMAIN m = {} THEN 0
    ELSE Cardinality(DOMAIN m[CHOOSE u \in DOMAIN m : TRUE])
n_components(m) == Min2(50, Min2(shape0(m) - 1, shape1(m) - 1))

InitTrainer ==
    /\ pc = "idle"
    /\ run = 0
    /\ df = [x \in TrainUsers \X TrainPartners |-> 0]
    /\ user_item_matrix = EmptyDict
    /\ models = EmptyDict
    /\ user_mapping = EmptyDict
    /\ item_mapping = EmptyDict
    /\ reverse_item_mapping = EmptyDict
    /\ map_run = 0
    /\ snapshot = [models |-> EmptyDict, user_mapping |-> EmptyDict,
                   item_mapping |-> EmptyDict,
                   reverse_item_mapping |-> EmptyDict, map_run |-> 0]
    /\ error = "none"

\* a scheduled run starts: fetch_training_data returns the window's rows,
\* or raises when the query fails
fetch_training_data ==
    /\ pc \in {"idle", "done", "failed"}
    /\ run < MaxRuns
    /\ run' = run + 1
    /\ snapshot' = Artifact
    /\ \/ \E d \in TrainingData : df' = d /\ pc' = "fetched" /\ error' = "none"
       \/ df' = df /\ pc' = "failed" /\ error' = "psycopg2.Error"
    /\ UNCHANGED <<user_item_matrix, models, user_mapping, item_mapping,
                   reverse_item_mapping, map_run>>
    /\ UNCHANGED notTrainer

\* create_user_item_matrix: pivot, then assign the three mappings on self;
\* a frame without rows has no columns (pd.DataFrame([])) and pivot_table
\* raises KeyError on it, before any assignment
create_user_item_matrix ==
    /\ pc = "fetched"
    /\ IF df_users(df) = {}
       THEN /\ pc' = "failed"
            /\ error' = "KeyError"
            /\ UNCHANGED <<user_item_matrix, user_mapping, item_mapping,
                           reverse_item_mapping, map_run>>
       ELSE /\ user_item_matrix' = pivot_table(df)
            /\ user_mapping' = enumerate_index(df_users(df))
            /\ item_mapping' = enumerate_index(df_partners(df))
            /\ reverse_item_mapping' =
                 [i \in 0..(Cardinality(df_partners(df)) - 1) |->
                    CHOOSE p \in df_partners(df) :
                        enumerate_index(df_partners(df))[p] = i]
            /\ map_run' = run
            /\ pc' = "matrix"
            /\ error' = error
    /\ UNCHANGED <<run, df, models, snapshot>>
    /\ UNCHANGED notTrainer

\* the fitted model is kept in self.models under the run that produced it
store_model(r, m) ==
    ("collaborative_filtering" :>
        [run |-> r, n_components |-> n_components(m), matrix |-> m]) @@ models

\* train_collaborative_filtering: TruncatedSVD(n_components).fit; the fit
\* raises when n_components < 1 and may fail numerically otherwise
train_collaborative_filtering ==
    /\ pc = "matrix"
    /\ \/ /\ n_components(user_item_matrix) >= 1
          /\ models' = store_model(run, user_item_matrix)
          /\ pc' = "done"
          /\ error' = error
       \/ /\ models' = models
          /\ pc' = "failed"
          /\ error' = "ValueError"
    /\ UNCHANGED <<run, df, user_item_matrix, user_mapping, item_mapping,
                   reverse_item_mapping, map_run, snapshot>>
    /\ UNCHANGED notTrainer

NextTrainer ==
    \/ fetch_training_data
    \/ create_user_item_matrix
    \/ train_collaborative_filtering


(***************************************************************************)
(* Full-featured backend (backend_fixed_full.py)                           *)
(***************************************************************************)
\* the categories of _load_partners, in the dict's order
Categories ==
    <<"Fine Dining", "Luxury Hotels", "Wellness & Spa", "Entertainment">>
\* for i in range(20): partners per category
PartnersPerCategory == 20
NumPartners == Len(Categories) * PartnersPerCategory

\* ratings are kept as multiples of 1 / RatingScale, which holds the tenths
\* of the initial ratings and one halving per review exactly
RatingScale == 10 * (2 ^ MaxReviews)

\* _load_partners: partner_id counts up from 1 through the categories;
\* within its category a partner has index i = 0..19
load_partners ==
    [id \in 1..NumPartners |->
        LET c == ((id - 1) \div PartnersPerCategory) + 1
            i == (id - 1) % PartnersPerCategory
        IN  [category |-> Categories[c],
             rating |-> (40 + (i % 10)) * (RatingScale \div 10),
             reviews_count |-> 20 + i * 3]]

\* Database.__init__: the two users (money in cents)
InitialUsers ==
    [id \in {1, 2} |->
        IF id = 1
        THEN [email |-> "maria@example.com", membership_type |-> "premium",
              total_savings |-> 125050, visits_count |-> 45,
              favorite_categories |-> <<"Fine Dining", "Wellness & Spa">>]
        ELSE [email |-> "ivan@example.com", membership_type |-> "gold",
              total_savings |-> 234075, visits_count |-> 78,
              favorite_categories |-> <<"Luxury Hotels", "Entertainment">>]]

\* a token is f"token-{user.id}-{timestamp}"; NoToken is an absent token
NoToken == <<0, 0>>
Tokens == {1, 2} \X (0..MaxTime)
TokenInputs == Tokens \cup {NoToken}
Emails == {"maria@example.com", "ivan@example.com", "nobody@example.com"}
Passwords == {"secret", "wrong"}
\* request bodies: partner ids (999 is not a partner), money in cents
PartnerIdInputs == {1, 999}
DiscountInputs == {1000}
\* create_transaction stores transaction["partner_id"] without looking it up
TransactionPartnerInputs == {1}
ReviewRatingInputs == {1, 5}
\* how the JSON body of create_transaction carries discount_applied
\* (Dict[str, Any]): as a number, or as a string of digits, which the float
\* field of Transaction converts and the handler's own += does not
SentAs == {"number", "string"}
NoUser == 0

\* the partner ids of a dict's values, in insertion order
partner_ids == [i \in 1..NumPartners |-> i]

\* [p for p in db.partners.values() if p.category == category]
select_category(seq, category) ==
    SelectSeq(seq, LAMBDA id : partners[id].category = category)

\* seq[:n]
take(seq, n) == SubSeq(seq, 1, IF Len(seq) < n THEN Len(seq) ELSE n)

\* get_current_user: the session's user id, or None
get_current_user(token) ==
    IF token = NoToken \/ token \notin DOMAIN sessions
    THEN NoUser
    ELSE sessions[token]

\* the category filter forgotten: the first three partners of the catalogue
category_partners_unfiltered(category) == take(partner_ids, 3)

\* category_partners[:3] of one favorite category
category_partners(category) == take(select_category(partner_ids, category), 3)

RECURSIVE extend_all(_)
\* the loop over user.favorite_categories: recommendations.extend(...)
extend_all(categories) ==
    IF categories = <<>> THEN <<>>
    ELSE category_partners(Head(categories)) \o extend_all(Tail(categories))

\* a handler's answer: the status, the caller the token resolved to and,
\* for get_recommendations, the "recommendations" list and the "reason"
Response(handler, status, caller, recommendations, reason) ==
    [handler |-> handler, status |-> status, caller |-> caller,
     recommendations |-> recommendations, reason |-> reason]

\* the handler answering an unauthenticated caller as get_profile does
get_recommendations_unauthorized(token) ==
    LET user_id == get_current_user(token)
    IN  IF user_id = NoUser
        THEN Response("get_recommendations", 401, NoUser, <<>>, "Unauthorized")
        ELSE IF user_id \notin DOMAIN users
        THEN Response("get_recommendations", 404, user_id, <<>>,
                      "User not found")
        ELSE Response("get_recommendations", 200, user_id,
                      take(extend_all(users[user_id].favorite_categories), 6),
                      "Based on your preferences")

\* the handler without a generic list for an unauthenticated caller
get_recommendations_no_generic(token) ==
    LET user_id == get_current_user(token)
    IN  IF user_id = NoUser
        THEN Response("get_recommendations", 200, NoUser, <<>>,
                      "Popular choices")
        ELSE IF user_id \notin DOMAIN users
        THEN Response("get_recommendations", 404, user_id, <<>>,
                      "User not found")
        ELSE Response("get_recommendations", 200, user_id,
                      take(extend_all(users[user_id].favorite_categories), 6),
                      "Based on your preferences")

\* get_recommendations: what the handler answers to a token
get_recommendations(token) ==
    LET user_id == get_current_user(token)
    IN  IF user_id = NoUser
        THEN Response("get_recommendations", 200, NoUser,
                      take(partner_ids, 6), "Popular choices")
        ELSE IF user_id \notin DOMAIN users
        THEN Response("get_recommendations", 404, user_id, <<>>,
                      "User not found")
        ELSE Response("get_recommendations", 200, user_id,
                      take(extend_all(users[user_id].favorite_categories), 6),
                      "Based on your preferences")

\* get_profile: what the handler answers to a token
get_profile(token) ==
    LET user_id == get_current_user(token)
    IN  IF user_id = NoUser
        THEN Response("get_profile", 401, NoUser, <<>>, "Unauthorized")
        ELSE IF user_id \notin DOMAIN users
        THEN Response("get_profile", 404, user_id, <<>>, "User not found")
        ELSE Response("get_profile", 200, user_id, <<>>, "")

InitBackend ==
    /\ users = InitialUsers
    /\ partners = load_partners
    /\ transactions = <<>>
    /\ reviews = <<>>
    /\ sessions = EmptyDict
    /\ clock = 0
    /\ response = Response("none", 0, NoUser, <<>>, "")

\* time passes
tick ==
    /\ clock < MaxTime
    /\ clock' = clock + 1
    /\ UNCHANGED <<users, partners, transactions, reviews, sessions, response>>
    /\ UNCHANGED notBackend

\* a lookup that also wants the password to be the user's
find_user_checking_password(email, password) ==
    LET found == {id \in DOMAIN users : users[id].email = email}
    IN  IF found # {} /\ password = "secret"
        THEN CHOOSE u \in found : \A v \in found : u <= v
        ELSE NoUser

\* login's loop over db.users.values(): the first user with the email, or
\* None; credentials.get("password") is read and not used
find_user(email, password) ==
    LET found == {id \in DOMAIN users : users[id].email = email}
    IN  IF found # {} THEN CHOOSE u \in found : \A v \in found : u <= v
        ELSE NoUser

\* a login that opens a session for a user id that is not in db.users when
\* the email is unknown
login_ghost_session ==
    /\ UNCHANGED <<users, partners, transactions, reviews, clock>>
    /\ UNCHANGED notBackend
    /\ \E email \in Emails, password \in Passwords :
           LET found == {id \in DOMAIN users : users[id].email = email}
               id == IF found # {} THEN CHOOSE u \in found : \A v \in found : u <= v
                     ELSE 3
           IN  /\ sessions' = (<<id, clock>> :> id) @@ sessions
               /\ response' = Response("login", 200, id, <<>>, "")

\* POST /api/auth/login
login ==
    /\ UNCHANGED <<users, partners, transactions, reviews, clock>>
    /\ UNCHANGED notBackend
    /\ \E email \in Emails, password \in Passwords :
           LET id == find_user(email, password)
           IN  IF id # NoUser
               THEN LET token == <<id, clock>>
                    IN  /\ sessions' = (token :> id) @@ sessions
                        /\ response' = Response("login", 200, id, <<>>, "")
               ELSE /\ sessions' = sessions
                    /\ response' = Response("login", 401, NoUser, <<>>,
                                            "Invalid credentials")

\* a logout that closes every session
logout_everyone ==
    /\ UNCHANGED <<users, partners, transactions, reviews, clock>>
    /\ UNCHANGED notBackend
    /\ \E token \in TokenInputs :
           /\ sessions' = IF token \in DOMAIN sessions THEN EmptyDict
                           ELSE sessions
           /\ response' = Response("logout", 200, NoUser, <<>>,
                                   "Logged out successfully")

\* POST /api/auth/logout; token: str is a required parameter, a request
\* without it is answered 422 before the handler runs
logout ==
    /\ UNCHANGED <<users, partners, transactions, reviews, clock>>
    /\ UNCHANGED notBackend
    /\ \E token \in TokenInputs :
           IF token = NoToken
           THEN /\ sessions' = sessions
                /\ response' = Response("logout", 422, NoUser, <<>>,
                                        "Field required")
           ELSE /\ sessions' = [t \in DOMAIN sessions \ {token} |-> sessions[t]]
                /\ response' = Response("logout", 200, NoUser, <<>>,
                                        "Logged out successfully")

\* create_transaction recording the transaction before it looks at the token
create_transaction_unchecked ==
    /\ UNCHANGED <<partners, reviews, sessions, clock, users>>
    /\ UNCHANGED notBackend
    /\ \E token \in TokenInputs, partner_id \in TransactionPartnerInputs,
          discount_applied \in DiscountInputs :
           LET user_id == get_current_user(token)
           IN  /\ Len(transactions) < MaxTransactions
               /\ transactions' = Append(transactions,
                      [id |-> Len(transactions) + 1, user_id |-> user_id,
                       partner_id |-> partner_id,
                       discount_applied |-> discount_applied])
               /\ response' = Response("create_transaction",
                                       IF user_id = NoUser THEN 401 ELSE 200,
                                       user_id, <<>>, "")

\* POST /api/transactions
create_transaction ==
    /\ UNCHANGED <<partners, reviews, sessions, clock>>
    /\ UNCHANGED notBackend
    /\ \E token \in TokenInputs, partner_id \in TransactionPartnerInputs,
          discount_applied \in DiscountInputs, sent_as \in SentAs :
           LET user_id == get_current_user(token)
           IN  IF user_id = NoUser
               THEN /\ response' = Response("create_transaction", 401, NoUser, <<>>,
                                            "Unauthorized")
                    /\ UNCHANGED <<users, transactions>>
               ELSE /\ Len(transactions) < MaxTransactions
                    /\ transactions' = Append(transactions,
                           [id |-> Len(transactions) + 1, user_id |-> user_id,
                            partner_id |-> partner_id,
                            discount_applied |-> discount_applied])
                    /\ IF user_id \in DOMAIN users /\ sent_as = "string"
                       THEN \* total_savings += "10.0" raises TypeError
                            /\ users' = users
                            /\ response' = Response("create_transaction", 500,
                                                    user_id, <<>>, "TypeError")
                       ELSE /\ users' =
                                 IF user_id \in DOMAIN users
                                 THEN [users EXCEPT
                                         ![user_id].total_savings =
                                             @ + discount_applied,
                                         ![user_id].visits_count = @ + 1]
                                 ELSE users
                            /\ response' =
                                 Response("create_transaction", 200, user_id,
                                          <<>>,
                                          "Transaction recorded successfully")

\* the partner's rating replaced by the rating of the newest review
rating_of_newest_review(old, rating) == rating * RatingScale

\* partner.rating = (partner.rating + review["rating"]) / 2
update_rating(old, rating) == (old + rating * RatingScale) \div 2

\* POST /api/reviews, the rating of the body being a JSON number
create_review ==
    /\ UNCHANGED <<users, transactions, sessions, clock>>
    /\ UNCHANGED notBackend
    /\ \E token \in TokenInputs, partner_id \in PartnerIdInputs,
          rating \in ReviewRatingInputs :
           LET user_id == get_current_user(token)
           IN  IF user_id = NoUser
               THEN /\ response' = Response("create_review", 401, NoUser, <<>>,
                                            "Unauthorized")
                    /\ UNCHANGED <<partners, reviews>>
               ELSE /\ Len(reviews) < MaxReviews
                    /\ reviews' = Append(reviews,
                           [id |-> Len(reviews) + 1, user_id |-> user_id,
                            partner_id |-> partner_id, rating |-> rating])
                    /\ partners' =
                         IF partner_id \in DOMAIN partners
                         THEN [partners EXCEPT
                                 ![partner_id].reviews_count = @ + 1,
                                 ![partner_id].rating =
                                     update_rating(@, rating)]
                         ELSE partners
                    /\ response' = Response("create_review", 200, user_id,
                                            <<>>,
                                            "Review submitted successfully")

\* GET /api/recommendations
get_recommendations_request ==
    /\ \E token \in TokenInputs : response' = get_recommendations(token)
    /\ UNCHANGED <<users, partners, transactions, reviews, sessions, clock>>
    /\ UNCHANGED notBackend

\* GET /api/user/profile
get_profile_request ==
    /\ \E token \in TokenInputs : response' = get_profile(token)
    /\ UNCHANGED <<users, partners, transactions, reviews, sessions, clock>>
    /\ UNCHANGED notBackend

NextBackend ==
    \/ tick
    \/ login
    \/ logout
    \/ create_transaction
    \/ create_review
    \/ get_recommendations_request
    \/ get_profile_request

(***************************************************************************)
(* Serving layer: Trending/Fallback Ranker and Serving Cache               *)
(* (spec.md 4.6, 4.7, 5, 6 and 7)                                          *)
(***************************************************************************)
\* the partners the rankers order, and the callers of
\* get_recommendations(user_id_or_none, None)
ServingPartners == TrainPartners
Callers == TrainUsers \cup {NoUser}

\* key scheme: user:{user_id} and trending:{category | "overall"}
overall == 0
user_key(u) == <<"user", u>>
trending_key == <<"trending", overall>>
Keys == {user_key(u) : u \in TrainUsers} \cup {trending_key}

\* get(key) -> ranked_list | miss
Miss == [hit |-> FALSE, ranked_list |-> <<>>]
Hit(ranked_list) == [hit |-> TRUE, ranked_list |-> ranked_list]

\* the partners of S by score descending, ties by partner id ascending
RECURSIVE rank_by(_, _)
rank_by(S, score) ==
    IF S = {} THEN <<>>
    ELSE LET best == CHOOSE p \in S :
                        \A q \in S : \/ score[p] > score[q]
                                     \/ score[p] = score[q] /\ p <= q
         IN  <<best>> \o rank_by(S \ {best}, score)

\* 4.6: partners with activity in the 7-day window, ranked by
\* redemption_count * 2 + view_count
trending_rank(t) == rank_by({p \in DOMAIN t : t[p] > 0}, t)

\* the personalized list a finished run precomputes for a user it has seen:
\* the run's partners by the user's rating in the fitted matrix
hybrid_precompute(u) ==
    LET m == models["collaborative_filtering"].matrix
    IN  take(rank_by({p \in DOMAIN m[u] : m[u][p] > 0}, m[u]),
             num_recommendations)

\* the answer to the caller
Answer(caller, lookup, source, recommendations, degraded) ==
    [caller |-> caller, lookup |-> lookup, source |-> source,
     status |-> "ok", recommendations |-> recommendations,
     degraded |-> degraded]
NoAnswer ==
    [caller |-> NoUser, lookup |-> "none", source |-> "none",
     status |-> "none", recommendations |-> <<>>, degraded |-> FALSE]

\* the trending fallback: the cached trending:overall list, recomputed on
\* the fly when that key is absent
trending_fallback ==
    IF cache[trending_key].hit THEN cache[trending_key].ranked_list
    ELSE trending_rank(trending_df)

\* get_recommendations(user_id_or_none, None) of the serving layer
serving_get_recommendations(caller) ==
    IF ~cache_up
    THEN Answer(caller, "unavailable", "trending",
                trending_rank(trending_df), TRUE)
    ELSE IF caller = NoUser
    THEN Answer(caller, "none", "trending", trending_fallback, FALSE)
    ELSE LET e == cache[user_key(caller)]
         IN  IF e.hit /\ e.ranked_list # <<>>
             THEN Answer(caller, "hit", "hybrid", e.ranked_list, FALSE)
             ELSE IF e.hit
             THEN Answer(caller, "hit", "trending", trending_fallback, FALSE)
             ELSE Answer(caller, "miss", "trending", trending_fallback, FALSE)

ServingIdle ==
    /\ trending_df = [p \in ServingPartners |-> 0]
    /\ cache = [k \in Keys |-> Miss]
    /\ cache_generation = 0
    /\ cache_up = TRUE
    /\ served = NoAnswer

\* the last stage of a training run that succeeded: one new cache
\* generation replaces the old one
cache_write ==
    /\ pc = "done"
    /\ cache_generation # run
    /\ cache_up
    /\ cache' = [k \in Keys |->
                   IF k = trending_key THEN Hit(trending_rank(trending_df))
                   ELSE IF k[2] \in DOMAIN user_mapping
                   THEN Hit(hybrid_precompute(k[2]))
                   ELSE Miss]
    /\ cache_generation' = run
    /\ UNCHANGED <<trending_df, cache_up, served>>
    /\ UNCHANGED notServing

\* an entry's ttl runs out
cache_expire ==
    /\ UNCHANGED <<trending_df, cache_generation, cache_up, served>>
    /\ UNCHANGED notServing
    /\ \E k \in Keys :
          /\ cache[k].hit
          /\ cache' = [cache EXCEPT ![k] = Miss]

\* the cache becomes unreachable, and reachable again
cache_fail ==
    /\ cache_up
    /\ cache_up' = FALSE
    /\ UNCHANGED <<trending_df, cache, cache_generation, served>>
    /\ UNCHANGED notServing

cache_recover ==
    /\ ~cache_up
    /\ cache_up' = TRUE
    /\ UNCHANGED <<trending_df, cache, cache_generation, served>>
    /\ UNCHANGED notServing

\* a request-time lookup that re-trains synchronously on a miss
serve_synchronous_retrain ==
    /\ UNCHANGED <<trending_df, cache, cache_generation, cache_up>>
    /\ UNCHANGED <<backendVars, engineVars, scorerVars>>
    /\ UNCHANGED <<run, df, user_item_matrix, models, user_mapping,
                   item_mapping, reverse_item_mapping, map_run, snapshot,
                   error>>
    /\ UNCHANGED <<builderVars, predictVars, trendingVars, redisVars,
                   rerunVars, fitVars, preVars, entVars>>
    /\ \E caller \in Callers :
          /\ served' = serving_get_recommendations(caller)
          /\ pc' = IF served'.lookup = "miss" THEN "fetched" ELSE pc

\* a request-time lookup
serve ==
    /\ UNCHANGED <<trending_df, cache, cache_generation, cache_up>>
    /\ UNCHANGED notServing
    /\ \E caller \in Callers :
          served' = serving_get_recommendations(caller)

(***************************************************************************)
(* Hybrid Scorer (spec.md 4.5)                                             *)
(***************************************************************************)
ScorerPartners == 1..3
\* the scores drawn, in tenths; NoSignal: the model has no score
NoSignal == -1
ScoreInputs == {NoSignal, 10}
\* blend weights, in tenths: _load_config's models.hybrid cf_weight 0.6 and
\* cb_weight 0.4
w_cb == 4
w_cf_as_cb == w_cb
w_cf == 6
\* the cool-down window, in days; NeverRedeemed: no redemption by the user
cool_down_days == 30
NeverRedeemed == -1
RedeemedInputs == {NeverRedeemed, 0, cool_down_days + 1}
\* the partners' average ratings, in tenths
partner_avg_rating == <<45, 45, 48>>
\* ranked before score(user_id) has run
NotScored == <<0>>

\* step 1: the union of the three candidate sources
cf_top == {p \in ScorerPartners : cf_score[p] # NoSignal}
cb_similar == {p \in ScorerPartners : cb_score[p] # NoSignal}
candidates == cf_top \cup cb_similar \cup preferred

\* step 2: a missing cf_score or cb_score counts as 0
score_or_zero(x) == IF x = NoSignal THEN 0 ELSE x
final(p) == w_cf * score_or_zero(cf_score[p])
            + w_cb * score_or_zero(cb_score[p])

\* step 3 skipped: every candidate stays
not_in_cool_down_unchecked(p) == TRUE

\* step 3: the user has not redeemed the partner within the window
not_in_cool_down(p) ==
    \/ redeemed_days_ago[p] = NeverRedeemed
    \/ redeemed_days_ago[p] > cool_down_days

\* step 4 without the last tie-break
precedes_without_id(p, q) ==
    \/ final(p) > final(q)
    \/ /\ final(p) = final(q)
       /\ partner_avg_rating[p] >= partner_avg_rating[q]

\* step 4: final descending, then average rating descending, then id
precedes(p, q) ==
    \/ final(p) > final(q)
    \/ /\ final(p) = final(q)
       /\ \/ partner_avg_rating[p] > partner_avg_rating[q]
          \/ /\ partner_avg_rating[p] = partner_avg_rating[q]
             /\ p <= q

\* the orders in which the candidates of S can be enumerated
Enumerations(S) ==
    {e \in [1..Cardinality(S) -> S] : \A p \in S : \E i \in DOMAIN e : e[i] = p}

\* a stable sort of the enumerated candidates by precedes
RECURSIVE insert_sorted(_, _)
insert_sorted(sorted, x) ==
    IF sorted = <<>> THEN <<x>>
    ELSE IF precedes(Head(sorted), x)
         THEN <<Head(sorted)>> \o insert_sorted(Tail(sorted), x)
         ELSE <<x>> \o sorted

RECURSIVE sort_candidates(_)
sort_candidates(e) ==
    IF e = <<>> THEN <<>>
    ELSE insert_sorted(sort_candidates(SubSeq(e, 1, Len(e) - 1)), e[Len(e)])

ScorerIdle ==
    /\ cf_score = [p \in ScorerPartners |-> NoSignal]
    /\ cb_score = [p \in ScorerPartners |-> NoSignal]
    /\ preferred = {}
    /\ redeemed_days_ago = [p \in ScorerPartners |-> NeverRedeemed]
    /\ ranked = NotScored
    /\ ranked_scores = <<>>

\* score(user_id): the candidates are enumerated in some order, scored,
\* filtered, sorted and cut to num_recommendations
score ==
    /\ ranked = NotScored
    /\ UNCHANGED <<cf_score, cb_score, preferred, redeemed_days_ago>>
    /\ UNCHANGED notScorer
    /\ \E e \in Enumerations({p \in candidates : not_in_cool_down(p)}) :
          /\ ranked' = take(sort_candidates(e), num_recommendations)
          /\ ranked_scores' = [i \in DOMAIN ranked' |-> final(ranked'[i])]

(***************************************************************************)
(* create_user_item_matrix as a function of its argument: any frame of     *)
(* (user_id, partner_id, implicit_rating) rows                             *)
(***************************************************************************)
\* the implicit_rating values drawn, and the rows one pair has at most
RatingInputs == {2, 5}
MaxRowsPerCell == 2

SeqsUpTo(S, n) == UNION {[1..k -> S] : k \in 0..n}
Frames == [TrainUsers \X TrainPartners -> SeqsUpTo(RatingInputs, MaxRowsPerCell)]

\* the user ids / partner ids that appear in the frame
frame_users(f) ==
    {u \in TrainUsers : \E p \in TrainPartners : f[<<u, p>>] # <<>>}
frame_partners(f) ==
    {p \in TrainPartners : \E u \in TrainUsers : f[<<u, p>>] # <<>>}

RECURSIVE sum_seq(_)
sum_seq(rs) == IF rs = <<>> THEN 0 ELSE Head(rs) + sum_seq(Tail(rs))

RECURSIVE max_seq(_)
max_seq(rs) ==
    IF Len(rs) = 1 THEN Head(rs)
    ELSE LET m == max_seq(Tail(rs))
         IN  IF Head(rs) > m THEN Head(rs) ELSE m

\* pivot_table's aggfunc is not given: pandas aggregates the rows of one
\* (index, column) pair by their mean, kept as the quotient sum / count
aggfunc(rs) == [sum |-> sum_seq(rs), count |-> Len(rs)]

\* df.pivot_table(index='user_id', columns='partner_id',
\*                values='implicit_rating', fill_value=0)
pivot_table_of_frame(f) ==
    [u \in frame_users(f) |->
        [p \in frame_partners(f) |->
            IF f[<<u, p>>] = <<>> THEN [sum |-> 0, count |-> 1]
            ELSE aggfunc(f[<<u, p>>])]]

\* {idx: item for item, idx in self.item_mapping.items()}
reverse_mapping(mapping) ==
    [i \in {mapping[x] : x \in DOMAIN mapping} |->
        CHOOSE x \in DOMAIN mapping : mapping[x] = i]

NotBuilt ==
    [error |-> "not called", matrix |-> EmptyDict, user_mapping |-> EmptyDict,
     item_mapping |-> EmptyDict, reverse_item_mapping |-> EmptyDict]

BuilderIdle ==
    /\ frame = [x \in TrainUsers \X TrainPartners |-> <<>>]
    /\ built = NotBuilt

\* create_user_item_matrix(frame); a frame without rows has no columns
\* (pd.DataFrame([])) and pivot_table raises KeyError before any assignment
build_user_item_matrix ==
    /\ built = NotBuilt
    /\ built' =
         IF frame_users(frame) = {}
         THEN [NotBuilt EXCEPT !.error = "KeyError"]
         ELSE [error |-> "none",
               matrix |-> pivot_table_of_frame(frame),
               user_mapping |-> enumerate_index(frame_users(frame)),
               item_mapping |-> enumerate_index(frame_partners(frame)),
               reverse_item_mapping |->
                   reverse_mapping(enumerate_index(frame_partners(frame)))]
    /\ UNCHANGED frame
    /\ UNCHANGED notBuilder

(***************************************************************************)
(* Collaborative Model: predict(user_id, partner_id) (spec.md 4.3) over    *)
(* the trainer's mappings and fitted model                                 *)
(***************************************************************************)
\* the ids predict is asked about: those of the training data and one the
\* training data never holds
PredictUsers == 1..3
PredictPartners == 1..3

\* the sentinel "no signal"
no_signal == [kind |-> "no signal", user |-> NoUser, partner |-> NoUser]

\* the latent factors are fitted on csr_matrix(user_item_df.values): row i
\* belongs to the i-th user, column j to the i-th partner, of the frame
\* the model was fitted on
row_user(m, i) == CHOOSE u \in DOMAIN m : enumerate_index(DOMAIN m)[u] = i
column_partner(m, j) ==
    LET cols == DOMAIN m[CHOOSE u \in DOMAIN m : TRUE]
    IN  CHOOSE q \in cols : enumerate_index(cols)[q] = j

\* predict: ids are looked up in self.user_mapping / self.item_mapping; an
\* id without an index has no signal; otherwise the dot product of the
\* factor rows at the two indices (kept as the ids those rows were fitted
\* for), and an index past the factors raises IndexError
predict(u, p) ==
    IF \/ "collaborative_filtering" \notin DOMAIN models
       \/ u \notin DOMAIN user_mapping
       \/ p \notin DOMAIN item_mapping
    THEN no_signal
    ELSE LET m == models["collaborative_filtering"].matrix
             i == user_mapping[u]
             j == item_mapping[p]
         IN  IF i >= shape0(m) \/ j >= shape1(m)
             THEN [kind |-> "IndexError", user |-> NoUser, partner |-> NoUser]
             ELSE [kind |-> "dot product", user |-> row_user(m, i),
                   partner |-> column_partner(m, j)]

PredictIdle ==
    prediction = [user |-> NoUser, partner |-> NoUser, result |-> no_signal]

predict_request ==
    /\ UNCHANGED notPredict
    /\ \E u \in PredictUsers, p \in PredictPartners :
          prediction' = [user |-> u, partner |-> p, result |-> predict(u, p)]

(***************************************************************************)
(* load_data: trending_query, and the Trending/Fallback Ranker over it     *)
(***************************************************************************)
TrendingUsers == TrainUsers
\* the ages drawn: the redemptions of one user at one partner, and the
\* last_viewed_at of the partner_views row of one user and one partner
RedemptionAges == {{}, {1}, {1, 2}, {8}, {1, 8}}
ViewAges == {{}, {1}, {8}}
NotRanked == <<0>>

\* a window of 30 days, as for the reviews of the same query
is_recent_as_reviews(days) == days < 30

\* created_at > NOW() - INTERVAL '7 days', last_viewed_at likewise
is_recent(days) == days < 7

\* COUNT(DISTINCT r.user_id) over the redemptions joined to the partner
recent_redemptions(p) ==
    Cardinality({u \in TrendingUsers :
                    \E a \in redemptions[<<u, p>>] : is_recent(a)})

\* COUNT(DISTINCT v.user_id) over the partner_views joined to the partner
recent_views(p) ==
    Cardinality({u \in TrendingUsers :
                    \E a \in partner_views[<<u, p>>] : is_recent(a)})

\* 4.6: redemption_count * 2 + view_count; a partner the HAVING clause
\* drops (no recent redemption and no recent view) has score 0
trending_score(p) == recent_redemptions(p) * 2 + recent_views(p)

TrendingIdle ==
    /\ redemptions = [x \in TrendingUsers \X ServingPartners |-> {}]
    /\ partner_views = [x \in TrendingUsers \X ServingPartners |-> {}]
    /\ trending_list = NotRanked

\* load_data's trending_df, ranked
load_trending ==
    /\ trending_list = NotRanked
    /\ trending_df' = [p \in ServingPartners |-> trending_score(p)]
    /\ trending_list' = trending_rank(trending_df')
    /\ UNCHANGED <<redemptions, partner_views>>
    /\ UNCHANGED <<cache, cache_generation, cache_up, served>>
    /\ UNCHANGED <<trainerVars, backendVars, engineVars, scorerVars,
                   builderVars, predictVars, redisVars, rerunVars, fitVars,
                   preVars, entVars>>

(***************************************************************************)
(* The analytics DAG's cache entries: redis.setex(key, 86400 * 7, json)    *)
(***************************************************************************)
\* df['category'].unique(), and context['execution_date'] as a day number
CacheCategories == {"Fine Dining", "Hotels"}
ExecutionDates == 1..2
\* analytics:partners:top:{category}:{date},
\* analytics:partners:top:overall:{date}, analytics:daily:transactions:{date}
RedisKeys == (CacheCategories \cup {"overall", "daily"}) \X ExecutionDates

\* 86400 * 7 seconds, in days
ttl_days == 7

\* GET's reply for a key that does not exist
nil == <<>>

\* the JSON one task run stores under a key: the records of that run
records_of(r, k) ==
    IF k[1] = "overall"
    THEN <<[partner_id |-> 1, run |-> r], [partner_id |-> 2, run |-> r]>>
    ELSE <<[partner_id |-> 1, run |-> r]>>

NoEntry == [exists |-> FALSE, value |-> nil, expires_at |-> 0,
            set_at |-> 0, set_by |-> 0]

\* a SET that leaves the key without a time to live
set_without_expiry(store, k, ttl, r) ==
    [store EXCEPT ![k] = [exists |-> TRUE, value |-> records_of(r, k),
                          expires_at |-> redis_now + MaxCacheDays + ttl,
                          set_at |-> redis_now, set_by |-> r]]

\* SETEX key ttl value: the value and its time to live replace, in one
\* step, whatever the key held (set_at, set_by: history)
setex(store, k, ttl, r) ==
    [store EXCEPT ![k] = [exists |-> TRUE, value |-> records_of(r, k),
                          expires_at |-> redis_now + ttl,
                          set_at |-> redis_now, set_by |-> r]]

\* GET key: a key whose time to live has run out does not exist
redis_get(k) ==
    IF redis_store[k].exists /\ redis_now < redis_store[k].expires_at
    THEN redis_store[k].value
    ELSE nil

RedisIdle ==
    /\ redis_store = [k \in RedisKeys |-> NoEntry]
    /\ redis_now = 0
    /\ dag_runs = 0
    /\ redis_reply = [key |-> <<"daily", 1>>, value |-> nil]

\* calculate_transaction_metrics: the day's metrics, unless df is empty
calculate_transaction_metrics ==
    /\ dag_runs < MaxDagRuns
    /\ dag_runs' = dag_runs + 1
    /\ UNCHANGED <<redis_now, redis_reply>>
    /\ UNCHANGED notRedis
    /\ \E execution_date \in ExecutionDates, df_empty \in BOOLEAN :
          redis_store' =
              IF df_empty THEN redis_store
              ELSE setex(redis_store, <<"daily", execution_date>>, ttl_days,
                         dag_runs + 1)

\* calculate_partner_performance: unless df is empty, one SETEX per category
\* of df, then one for the overall entry; an exception of a SETEX ends the
\* task with the entries written so far (written)
calculate_partner_performance ==
    /\ dag_runs < MaxDagRuns
    /\ dag_runs' = dag_runs + 1
    /\ UNCHANGED <<redis_now, redis_reply>>
    /\ UNCHANGED notRedis
    /\ \E execution_date \in ExecutionDates,
          categories \in SUBSET CacheCategories :
          \E written \in {w \in SUBSET (categories \cup {"overall"}) :
                            /\ categories = {} => w = {}
                            /\ "overall" \in w => categories \subseteq w} :
             redis_store' =
                 [k \in RedisKeys |->
                    IF k[2] = execution_date /\ k[1] \in written
                    THEN setex(redis_store, k, ttl_days, dag_runs + 1)[k]
                    ELSE redis_store[k]]

\* a day passes
redis_tick ==
    /\ redis_now < MaxCacheDays
    /\ redis_now' = redis_now + 1
    /\ UNCHANGED <<redis_store, dag_runs, redis_reply>>
    /\ UNCHANGED notRedis

\* a reader's GET
redis_read ==
    /\ UNCHANGED <<redis_store, redis_now, dag_runs>>
    /\ UNCHANGED notRedis
    /\ \E k \in RedisKeys : redis_reply' = [key |-> k, value |-> redis_get(k)]

(***************************************************************************)
(* The collaborative fit and the content fit of one run, side by side      *)
(***************************************************************************)
Fits == {"collaborative_filtering", "content_based"}
\* the inputs of one run, as small stand-ins
MatrixInputs == 1..3
FeatureInputs == 1..3

\* no model fitted, nothing read
NotFitted == [of |-> 0, from |-> 0]
NothingRead == [input |-> 0, models |-> [f \in Fits |-> NotFitted]]

\* what a fit reads: the collaborative fit the matrix, the content fit the
\* feature table
fit_input(f) ==
    IF f = "collaborative_filtering" THEN fit_matrix ELSE fit_features

\* the model a fit computes from what it read
fit_model(f, input) ==
    [of |-> input, from |-> IF f = "content_based" THEN 2 ELSE 1]

\* a fit that keeps its result by copying the models it saw when it started
\* and putting the copy in place of the run's models
store_fit_by_copy(f, local) ==
    [local.models EXCEPT ![f] = fit_model(f, local.input)]

\* a fit keeps its result under its own name and touches nothing else
store_fit(f, local) ==
    [fit_models EXCEPT ![f] = fit_model(f, local.input)]

\* the artifact of running the two fits one after the other
sequential_fits ==
    [f \in Fits |-> fit_model(f, fit_input(f))]

FitIdle ==
    /\ fit_matrix = 1
    /\ fit_features = 1
    /\ fit_pc = [f \in Fits |-> "ready"]
    /\ fit_local = [f \in Fits |-> NothingRead]
    /\ fit_models = [f \in Fits |-> NotFitted]

\* a fit starts: it reads its input
fit_read ==
    /\ UNCHANGED <<fit_matrix, fit_features, fit_models>>
    /\ UNCHANGED notFit
    /\ \E f \in Fits :
          /\ fit_pc[f] = "ready"
          /\ fit_pc' = [fit_pc EXCEPT ![f] = "fitting"]
          /\ fit_local' = [fit_local EXCEPT
                             ![f] = [input |-> fit_input(f),
                                     models |-> fit_models]]

\* a fit ends: it keeps its model
fit_store ==
    /\ UNCHANGED <<fit_matrix, fit_features, fit_local>>
    /\ UNCHANGED notFit
    /\ \E f \in Fits :
          /\ fit_pc[f] = "fitting"
          /\ fit_pc' = [fit_pc EXCEPT ![f] = "fitted"]
          /\ fit_models' = store_fit(f, fit_local[f])

(***************************************************************************)
(* Pre-phase-1 backend: register (backend_pre_phase1.py)                   *)
(***************************************************************************)
\* register is a plain def: the server runs each request in a worker thread
RegisterThreads == {1, 2}
RegisterEmails ==
    {"edoardok@gmail.com", "new@example.com", "other@example.com"}

\* users = {"user1": ..., "user2": ...}
pre_registered ==
    [id \in {1, 2} |->
        IF id = 1 THEN "edoardok@gmail.com" ELSE "radoslav.tashev@gmail.com"]

\* [u["email"] for u in users.values()]
registered_emails == {pre_users[id] : id \in DOMAIN pre_users}

\* str(uuid.uuid4()): an id no user and no session has yet
new_uuid == Cardinality(DOMAIN pre_users) + 1

NotRegistering == [pc |-> "idle", email |-> ""]

PreIdle ==
    /\ pre_users = pre_registered
    /\ pre_sessions = <<>>
    /\ register_thread = [t \in RegisterThreads |-> NotRegistering]
    /\ register_requests = 0
    /\ register_response = [thread |-> 0, status |-> 0]

\* register up to the email check: 400 when the email is registered
register_check ==
    /\ register_requests < MaxRegisterRequests
    /\ register_requests' = register_requests + 1
    /\ UNCHANGED <<pre_users, pre_sessions>>
    /\ UNCHANGED notPre
    /\ \E t \in RegisterThreads, email \in RegisterEmails :
          /\ register_thread[t].pc = "idle"
          /\ IF email \in registered_emails
             THEN /\ register_response' = [thread |-> t, status |-> 400]
                  /\ UNCHANGED register_thread
             ELSE /\ register_thread' =
                       [register_thread EXCEPT
                          ![t] = [pc |-> "checked", email |-> email]]
                  /\ UNCHANGED register_response

\* register from the insert on: users[user_id] = user, the session, the answer
register_insert ==
    /\ UNCHANGED register_requests
    /\ UNCHANGED notPre
    /\ \E t \in RegisterThreads :
          /\ register_thread[t].pc = "checked"
          /\ pre_users' = (new_uuid :> register_thread[t].email) @@ pre_users
          /\ pre_sessions' = Append(pre_sessions, new_uuid)
          /\ register_thread' = [register_thread EXCEPT ![t] = NotRegistering]
          /\ register_response' = [thread |-> t, status |-> 200]

NextRegister ==
    \/ register_check
    \/ register_insert

(***************************************************************************)
(* Enterprise backend: tokens and UserService (boom_card_enterprise.py)    *)
(***************************************************************************)
EntEmails == {"a@example.com", "b@example.com"}
\* phone_number: Optional[str] = Field(None): a number or None
NoPhone == "None"
EntPhones == {"+359888111111", NoPhone}
EntPasswords == {"Passw0rd1", "wrong"}

\* a JWT: the claims sub and type, and whether jwt.decode accepts it (signed
\* with settings.secret_key and not expired)
create_access_token(user_id) ==
    [sub |-> user_id, type |-> "access", decodes |-> TRUE]
create_refresh_token(user_id) ==
    [sub |-> user_id, type |-> "refresh", decodes |-> TRUE]
\* a token signed with another key
ForgedTokens == {[sub |-> 1, type |-> "access", decodes |-> FALSE]}

\* verify_token: the sub of a token jwt.decode accepts, else None (0)
verify_token(token) ==
    IF token.decodes THEN token.sub ELSE 0

\* get_current_user: 401 unless verify_token gives the id of a user
ent_get_current_user(token) ==
    LET user_id == verify_token(token)
    IN  IF user_id = 0 \/ user_id \notin DOMAIN ent_users THEN 0 ELSE user_id

\* column == value as SQLAlchemy renders it: "column IS NULL" when the
\* value is None, else "column = :value", which is not true of a NULL column
sql_eq(column, value) ==
    IF value = NoPhone THEN column = NoPhone
    ELSE column # NoPhone /\ column = value

\* the filter of create_user: (User.email == email) | (User.phone_number ==
\* phone_number), .first()
existing_user(email, phone_number) ==
    {id \in DOMAIN ent_users :
        \/ ent_users[id].email = email
        \/ sql_eq(ent_users[id].phone_number, phone_number)}

EntAnswer(handler, status, token, email, phone_number, duplicate) ==
    [handler |-> handler, status |-> status, token |-> token,
     email |-> email, phone_number |-> phone_number, duplicate |-> duplicate]
NoEntToken == [sub |-> 0, type |-> "", decodes |-> FALSE]

EntIdle ==
    /\ ent_users = <<>>
    /\ ent_issued = {}
    /\ ent_response = EntAnswer("none", 0, NoEntToken, "", NoPhone, FALSE)

\* POST /api/v1/auth/register: UserService.create_user; 400 on ValueError
\* (duplicate, history: an existing user has this email or this phone number)
register_user ==
    /\ UNCHANGED ent_issued
    /\ UNCHANGED notEnt
    /\ \E email \in EntEmails, phone_number \in EntPhones :
          LET duplicate ==
                  \E id \in DOMAIN ent_users :
                     \/ ent_users[id].email = email
                     \/ /\ phone_number # NoPhone
                        /\ ent_users[id].phone_number = phone_number
          IN  IF existing_user(email, phone_number) # {}
              THEN /\ ent_response' = EntAnswer("register_user", 400, NoEntToken,
                                                email, phone_number, duplicate)
                   /\ UNCHANGED ent_users
              ELSE /\ Len(ent_users) < MaxEntUsers
                   /\ ent_users' = Append(ent_users,
                          [email |-> email, phone_number |-> phone_number,
                           password |-> "Passw0rd1"])
                   /\ ent_response' = EntAnswer("register_user", 200, NoEntToken,
                                                email, phone_number, duplicate)

\* POST /api/v1/auth/login: authenticate_user, then both tokens
login_user ==
    /\ UNCHANGED ent_users
    /\ UNCHANGED notEnt
    /\ \E email \in EntEmails, password \in EntPasswords :
          LET found == {id \in DOMAIN ent_users :
                           /\ ent_users[id].email = email
                           /\ ent_users[id].password = password}
          IN  IF found = {}
              THEN /\ ent_response' = EntAnswer("login_user", 401, NoEntToken,
                                                email, NoPhone, FALSE)
                   /\ UNCHANGED ent_issued
              ELSE LET id == CHOOSE u \in found : TRUE
                   IN  /\ ent_issued' = ent_issued \cup
                              {create_access_token(id), create_refresh_token(id)}
                       /\ ent_response' = EntAnswer("login_user", 200,
                              create_access_token(id), email, NoPhone, FALSE)

\* GET /api/auth/profile with a bearer token: Depends(get_current_user)
get_user_profile ==
    /\ UNCHANGED <<ent_users, ent_issued>>
    /\ UNCHANGED notEnt
    /\ \E token \in ent_issued \cup ForgedTokens :
          ent_response' =
              EntAnswer("get_user_profile",
                        IF ent_get_current_user(token) = 0 THEN 401 ELSE 200,
                        token, "", NoPhone, FALSE)

NextEnterprise ==
    \/ register_user
    \/ login_user
    \/ get_user_profile

(***************************************************************************)
(* RecommendationEngine: load_data and preprocess_data                     *)
(***************************************************************************)
\* a column that is NULL (the LEFT JOIN found no row)
Null == -1

\* one row of users LEFT JOIN redemptions, favorites, partner_views:
\* r_id / f_id are present or NULL, view_count is NULL without a view row
RawRows ==
    [r_id : BOOLEAN, f_id : BOOLEAN, view_count : {Null} \cup (0..MaxViewCount)]

\* the WHERE clause: at least one of the three joined rows exists
RowSelected(row) == row.r_id \/ row.f_id \/ row.view_count # Null

\* a comparison with NULL is not true
Gt(x, n) == x # Null /\ x > n

\* the CASE with the favorite branch tested before the redemption branch
interaction_rating_favorite_first(row) ==
    IF row.f_id THEN 4
    ELSE IF row.r_id THEN 5
    ELSE IF Gt(row.view_count, 5) THEN 3
    ELSE IF Gt(row.view_count, 2) THEN 2
    ELSE 1

\* interactions_query: CASE ... END as rating
interaction_rating(row) ==
    IF row.r_id THEN 5
    ELSE IF row.f_id THEN 4
    ELSE IF Gt(row.view_count, 5) THEN 3
    ELSE IF Gt(row.view_count, 2) THEN 2
    ELSE 1

\* the step function with strict comparisons
recency_weight_of_strict(days) ==
    IF days < 7 THEN 10
    ELSE IF days < 30 THEN 9
    ELSE IF days < 90 THEN 7
    ELSE 5

\* F.when(days_ago <= 7, 1.0).when(<= 30, 0.9).when(<= 90, 0.7)
\* .otherwise(0.5), in tenths
recency_weight_of(days) ==
    IF days <= 7 THEN 10
    ELSE IF days <= 30 THEN 9
    ELSE IF days <= 90 THEN 7
    ELSE 5

FeatureUsers == {1, 2}
FeaturePartners == {1, 2}
FeaturePairs == FeatureUsers \X FeaturePartners

\* groupBy('user_id').agg(count('*')): a user's number of rows
interaction_count(d, u) ==
    LET RECURSIVE sum(_)
        sum(S) == IF S = {} THEN 0
                  ELSE LET p == CHOOSE q \in S : TRUE
                       IN  d[<<u, p>>] + sum(S \ {p})
    IN  sum(FeaturePartners)

\* the filter keeping only users with more rows than the threshold
active_users_strict(d) ==
    {u \in FeatureUsers : interaction_count(d, u) > min_interactions}

\* .filter(interaction_count >= self.min_interactions)
active_users(d) ==
    {u \in FeatureUsers : interaction_count(d, u) >= min_interactions}

\* interactions_df.join(active_users.select('user_id'), on='user_id',
\* how='inner'): the rows of the active users, every one of them
join_active(d) ==
    [x \in FeaturePairs |-> IF x[1] \in active_users(d) THEN d[x] ELSE 0]

\* self.recency_weight = config.get('recency_weight', 0.8), in tenths
recency_weight_config == 8

\* the day of the interaction's timestamp, and the days a run can start
InteractionDays == 0..1
RunDays == 1..MaxRunDay

\* preprocess_data's columns for one interactions row when the run's
\* F.current_timestamp() is the day now: days_ago is datediff(now,
\* timestamp), weighted_rating is rating * recency_weight *
\* self.recency_weight (in hundredths)
preprocess_row(row, now) ==
    LET d == now - row.timestamp
    IN  [current_timestamp |-> now,
         days_ago |-> d,
         weighted_rating |->
             row.rating * recency_weight_of(d) * recency_weight_config]

RerunIdle ==
    /\ interaction = [timestamp |-> 0, rating |-> 5]
    /\ weighted_rating = <<>>

InitRating ==
    /\ InitTrainer /\ InitBackend /\ ServingIdle /\ ScorerIdle
    /\ EntIdle
    /\ PreIdle
    /\ FitIdle
    /\ RerunIdle
    /\ RedisIdle
    /\ TrendingIdle
    /\ PredictIdle
    /\ BuilderIdle
    /\ raw_rows \in {rows \in RawRows \X RawRows :
                        RowSelected(rows[1]) /\ RowSelected(rows[2])}
    /\ ratings = <<>>
    /\ days_ago = <<0, 0>>
    /\ recency_weight = <<>>
    /\ interactions_df = [x \in FeaturePairs |-> 0]
    /\ filtered_df = <<>>

\* load_data: the interactions query rates its rows
load_data ==
    /\ ratings = <<>>
    /\ ratings' = <<interaction_rating(raw_rows[1]),
                   interaction_rating(raw_rows[2])>>
    /\ UNCHANGED <<raw_rows, days_ago, recency_weight, interactions_df,
                   filtered_df>>
    /\ UNCHANGED notEngine

\* the specification of the interactions query
SpecRating == InitRating /\ [][load_data]_vars

InitRecency ==
    /\ InitTrainer /\ InitBackend /\ ServingIdle /\ ScorerIdle
    /\ EntIdle
    /\ PreIdle
    /\ FitIdle
    /\ RerunIdle
    /\ RedisIdle
    /\ TrendingIdle
    /\ PredictIdle
    /\ BuilderIdle
    /\ raw_rows = <<[r_id |-> TRUE, f_id |-> FALSE, view_count |-> Null],
                    [r_id |-> TRUE, f_id |-> FALSE, view_count |-> Null]>>
    /\ ratings = <<>>
    /\ days_ago \in (0..MaxDaysAgo) \X (0..MaxDaysAgo)
    /\ recency_weight = <<>>
    /\ interactions_df = [x \in FeaturePairs |-> 0]
    /\ filtered_df = <<>>

\* preprocess_data, the recency weighting of the interactions
apply_recency_weight ==
    /\ recency_weight = <<>>
    /\ recency_weight' = <<recency_weight_of(days_ago[1]),
                           recency_weight_of(days_ago[2])>>
    /\ UNCHANGED <<raw_rows, ratings, days_ago, interactions_df, filtered_df>>
    /\ UNCHANGED notEngine

\* the specification of the recency weighting
SpecRecency == InitRecency /\ [][apply_recency_weight]_vars

InitFilter ==
    /\ InitTrainer /\ InitBackend /\ ServingIdle /\ ScorerIdle
    /\ EntIdle
    /\ PreIdle
    /\ FitIdle
    /\ RerunIdle
    /\ RedisIdle
    /\ TrendingIdle
    /\ PredictIdle
    /\ BuilderIdle
    /\ raw_rows = <<[r_id |-> TRUE, f_id |-> FALSE, view_count |-> Null],
                    [r_id |-> TRUE, f_id |-> FALSE, view_count |-> Null]>>
    /\ ratings = <<>>
    /\ days_ago = <<0, 0>>
    /\ recency_weight = <<>>
    /\ interactions_df \in [FeaturePairs -> 0..MaxRowsPerPair]
    /\ filtered_df = <<>>

\* preprocess_data, the filter of users with insufficient interactions
filter_active_users ==
    /\ filtered_df = <<>>
    /\ filtered_df' = join_active(interactions_df)
    /\ UNCHANGED <<raw_rows, ratings, days_ago, recency_weight,
                   interactions_df>>
    /\ UNCHANGED notEngine

\* the specification of the user filter
SpecFilter == InitFilter /\ [][filter_active_users]_vars

(***************************************************************************)
(* Specifications                                                          *)
(***************************************************************************)
\* the training pipeline
EngineIdle ==
    /\ raw_rows = <<[r_id |-> TRUE, f_id |-> FALSE, view_count |-> Null],
                    [r_id |-> TRUE, f_id |-> FALSE, view_count |-> Null]>>
    /\ ratings = <<>>
    /\ days_ago = <<0, 0>>
    /\ recency_weight = <<>>
    /\ interactions_df = [x \in FeaturePairs |-> 0]
    /\ filtered_df = <<>>

Init ==
    /\ InitTrainer /\ InitBackend /\ EngineIdle /\ ServingIdle /\ ScorerIdle
    /\ EntIdle
    /\ PreIdle
    /\ FitIdle
    /\ RerunIdle
    /\ RedisIdle
    /\ TrendingIdle
    /\ PredictIdle
    /\ BuilderIdle

Next == NextTrainer

Spec == Init /\ [][Next]_vars

\* the backend's request handlers
SpecBackend == Init /\ [][NextBackend]_vars

\* the serving layer next to the training pipeline
InitServing ==
    /\ InitTrainer /\ InitBackend /\ EngineIdle /\ ScorerIdle
    /\ EntIdle
    /\ PreIdle
    /\ FitIdle
    /\ RerunIdle
    /\ RedisIdle
    /\ TrendingIdle
    /\ PredictIdle
    /\ BuilderIdle
    /\ trending_df \in [ServingPartners -> 0..MaxTrending]
    /\ cache = [k \in Keys |-> Miss]
    /\ cache_generation = 0
    /\ cache_up = TRUE
    /\ served = NoAnswer

NextServing ==
    \/ fetch_training_data
    \/ create_user_item_matrix
    \/ train_collaborative_filtering
    \/ cache_write
    \/ cache_expire
    \/ cache_fail
    \/ cache_recover
    \/ serve

SpecServing == InitServing /\ [][NextServing]_vars

\* the Hybrid Scorer on every input within the bounds
InitScorer ==
    /\ InitTrainer /\ InitBackend /\ EngineIdle /\ ServingIdle
    /\ EntIdle
    /\ PreIdle
    /\ FitIdle
    /\ RerunIdle
    /\ RedisIdle
    /\ TrendingIdle
    /\ PredictIdle
    /\ BuilderIdle
    /\ cf_score \in [ScorerPartners -> ScoreInputs]
    /\ cb_score \in [ScorerPartners -> ScoreInputs]
    /\ preferred \in SUBSET ScorerPartners
    /\ redeemed_days_ago \in [ScorerPartners -> RedeemedInputs]
    /\ ranked = NotScored
    /\ ranked_scores = <<>>

SpecScorer == InitScorer /\ [][score]_vars

\* predict next to the training pipeline
NextPredict ==
    \/ fetch_training_data
    \/ create_user_item_matrix
    \/ train_collaborative_filtering
    \/ predict_request

SpecPredict == Init /\ [][NextPredict]_vars

\* trending_query on every set of events within the bounds
InitTrending ==
    /\ InitTrainer /\ InitBackend /\ EngineIdle /\ ServingIdle /\ ScorerIdle
    /\ EntIdle
    /\ PreIdle
    /\ FitIdle
    /\ RerunIdle
    /\ RedisIdle
    /\ BuilderIdle /\ PredictIdle
    /\ redemptions \in [TrendingUsers \X ServingPartners -> RedemptionAges]
    /\ partner_views \in [TrendingUsers \X ServingPartners -> ViewAges]
    /\ trending_list = NotRanked

SpecTrending == InitTrending /\ [][load_trending]_vars

\* the analytics DAG's writes and a reader
NextRedis ==
    \/ calculate_transaction_metrics
    \/ calculate_partner_performance
    \/ redis_tick
    \/ redis_read

SpecRedis == Init /\ [][NextRedis]_vars

\* one interactions row, the same for both runs of the Spark job
InitRerun ==
    /\ InitTrainer /\ InitBackend /\ EngineIdle /\ ServingIdle /\ ScorerIdle
    /\ EntIdle
    /\ PreIdle
    /\ FitIdle
    /\ RedisIdle /\ TrendingIdle /\ PredictIdle /\ BuilderIdle
    /\ interaction \in [timestamp : InteractionDays, rating : 1..5]
    /\ weighted_rating = <<>>

\* a run of the job: preprocess_data on the row, at the day the run starts
preprocess_data ==
    /\ Len(weighted_rating) < 2
    /\ UNCHANGED interaction
    /\ UNCHANGED notRerun
    /\ \E now \in RunDays :
          /\ Len(weighted_rating) = 1 =>
                now >= weighted_rating[1].current_timestamp
          /\ weighted_rating' =
                Append(weighted_rating, preprocess_row(interaction, now))

\* the job run twice on the same interactions
SpecRerun == InitRerun /\ [][preprocess_data]_vars

\* concurrent register requests on the pre-phase-1 backend
SpecRegister == Init /\ [][NextRegister]_vars

\* the enterprise backend's registration, login and a protected endpoint
SpecEnterprise == Init /\ [][NextEnterprise]_vars

\* one run's inputs, before either fit has started
InitFits ==
    /\ InitTrainer /\ InitBackend /\ EngineIdle /\ ServingIdle /\ ScorerIdle
    /\ EntIdle
    /\ PreIdle
    /\ RedisIdle /\ TrendingIdle /\ PredictIdle /\ BuilderIdle /\ RerunIdle
    /\ fit_matrix \in MatrixInputs
    /\ fit_features \in FeatureInputs
    /\ fit_pc = [f \in Fits |-> "ready"]
    /\ fit_local = [f \in Fits |-> NothingRead]
    /\ fit_models = [f \in Fits |-> NotFitted]

NextFits ==
    \/ fit_read
    \/ fit_store

\* the two fits of one run in every interleaving
SpecFits == InitFits /\ [][NextFits]_vars

\* create_user_item_matrix on every frame within the bounds
InitMatrix ==
    /\ InitTrainer /\ InitBackend /\ EngineIdle /\ ServingIdle /\ ScorerIdle
    /\ EntIdle
    /\ PreIdle
    /\ FitIdle
    /\ RerunIdle
    /\ RedisIdle
    /\ TrendingIdle
    /\ PredictIdle
    /\ frame \in Frames
    /\ built = NotBuilt
    /\ PredictIdle
    /\ TrendingIdle
    /\ RedisIdle

SpecMatrix == InitMatrix /\ [][build_user_item_matrix]_vars

(***************************************************************************)
(* C11: every user id and every partner id of the frame has exactly one    *)
(* row, respectively one column: the mappings are defined on exactly the   *)
(* ids that appear, are injective, cover 0..rows-1 and 0..columns-1, the   *)
(* matrix has those rows and columns, and the reverse item mapping         *)
(* inverts the item mapping.                                               *)
(***************************************************************************)
C11_OneRowOneColumn ==
    built.error = "none" =>
        LET um == built.user_mapping
            im == built.item_mapping
            rm == built.reverse_item_mapping
        IN  /\ DOMAIN um = frame_users(frame)
            /\ DOMAIN im = frame_partners(frame)
            /\ \A u, v \in DOMAIN um : um[u] = um[v] => u = v
            /\ \A p, q \in DOMAIN im : im[p] = im[q] => p = q
            /\ {um[u] : u \in DOMAIN um} = 0..(Cardinality(DOMAIN um) - 1)
            /\ {im[p] : p \in DOMAIN im} = 0..(Cardinality(DOMAIN im) - 1)
            /\ DOMAIN built.matrix = DOMAIN um
            /\ \A u \in DOMAIN um : DOMAIN built.matrix[u] = DOMAIN im
            /\ DOMAIN rm = 0..(Cardinality(DOMAIN im) - 1)
            /\ \A p \in DOMAIN im : rm[im[p]] = p

\* a matrix of two rows and two columns was built from a frame in which
\* one pair has two rows and another pair has none
C11_Witness ==
    /\ built.error = "none"
    /\ Cardinality(DOMAIN built.user_mapping) = 2
    /\ Cardinality(DOMAIN built.item_mapping) = 2
    /\ Len(frame[<<1, 1>>]) = 2
    /\ frame[<<1, 2>>] = <<>>

C13_EmptyInputIsDataIntegrityError ==
    [][(pc = "fetched" /\ df_users(df) = {} /\ pc' # pc) =>
          /\ pc' = "failed"
          /\ error' = "DataIntegrityError"
          /\ UNCHANGED <<user_item_matrix, models, user_mapping, item_mapping,
                         reverse_item_mapping>>
          /\ cache' = cache]_vars

(***************************************************************************)
(* C14: every candidate that passes the cool-down step is in the result    *)
(* with the score 0.6 * cf_score + 0.4 * cb_score, where a missing         *)
(* cf_score or cb_score counts as 0; a candidate with a missing score is   *)
(* not dropped.  Scores are in hundredths.                                 *)
(***************************************************************************)
C14_BlendedScore ==
    ranked # NotScored =>
        \A p \in ScorerPartners :
           (/\ \/ cf_score[p] # NoSignal
               \/ cb_score[p] # NoSignal
               \/ p \in preferred
            /\ \/ redeemed_days_ago[p] = NeverRedeemed
               \/ redeemed_days_ago[p] > cool_down_days)
           => \E i \in DOMAIN ranked :
                 /\ ranked[i] = p
                 /\ ranked_scores[i] =
                       6 * (IF cf_score[p] = NoSignal THEN 0 ELSE cf_score[p])
                       + 4 * (IF cb_score[p] = NoSignal THEN 0 ELSE cb_score[p])

\* the result holds a partner with both scores, one without cf_score and
\* one without any score
C14_Witness ==
    /\ ranked = <<1, 2, 3>>
    /\ ranked_scores = <<100, 40, 0>>
    /\ cf_score[2] = NoSignal
    /\ cf_score[3] = NoSignal /\ cb_score[3] = NoSignal

(***************************************************************************)
(* C15: the result is strictly ordered by final score descending, then     *)
(* partner average rating descending, then partner id ascending, so that   *)
(* one set of scored candidates has one result, in whichever order the     *)
(* candidates were enumerated.                                             *)
(***************************************************************************)
C15_TotalOrder ==
    ranked # NotScored =>
        \A i, j \in DOMAIN ranked : i < j =>
           \/ ranked_scores[i] > ranked_scores[j]
           \/ /\ ranked_scores[i] = ranked_scores[j]
              /\ partner_avg_rating[ranked[i]] > partner_avg_rating[ranked[j]]
           \/ /\ ranked_scores[i] = ranked_scores[j]
              /\ partner_avg_rating[ranked[i]] = partner_avg_rating[ranked[j]]
              /\ ranked[i] < ranked[j]

\* three candidates with one final score: the average rating puts partner
\* 3 first, the partner id orders the other two
C15_Witness ==
    /\ ranked = <<3, 1, 2>>
    /\ ranked_scores = <<60, 60, 60>>
    /\ partner_avg_rating[1] = partner_avg_rating[2]

C30_LoginIgnoresPassword ==
    /\ \A email \in Emails : \A p, q \in Passwords :
          find_user(email, p) = find_user(email, q)
    /\ \A u \in DOMAIN users : \A p \in Passwords :
          find_user(users[u].email, p) = u
    /\ \A p \in Passwords : find_user("nobody@example.com", p) = NoUser
    /\ response.handler = "login" =>
          IF response.caller = NoUser THEN response.status = 401
          ELSE /\ response.status = 200
               /\ \E t \in DOMAIN sessions : sessions[t] = response.caller

\* both users hold a session, issued by login
C30_Witness ==
    /\ response.handler = "login" /\ response.status = 200
    /\ response.caller = 2
    /\ {sessions[t] : t \in DOMAIN sessions} = {1, 2}

C28_SavingsMatchTransactions ==
    \A u \in DOMAIN users :
        LET ts == SelectSeq(transactions, LAMBDA t : t.user_id = u)
            RECURSIVE discounts(_)
            discounts(i) ==
                IF i = 0 THEN 0 ELSE discounts(i - 1) + ts[i].discount_applied
        IN  /\ users[u].total_savings
                  = InitialUsers[u].total_savings + discounts(Len(ts))
            /\ users[u].visits_count = InitialUsers[u].visits_count + Len(ts)

(***************************************************************************)
(* C27: create_transaction and create_review answer 401 exactly when the   *)
(* token is missing or unknown, and such a request leaves the              *)
(* transactions, the reviews, every user and every partner as they were.   *)
(***************************************************************************)
C27_UnauthorizedChangesNothing ==
    [][(/\ response' # response
        /\ response'.handler \in {"create_transaction", "create_review"}) =>
          /\ response'.status = 401 <=> response'.caller = NoUser
          /\ response'.status = 401 =>
                UNCHANGED <<transactions, reviews, users, partners, sessions>>
          /\ response'.status # 401 =>
                \/ Len(transactions') = Len(transactions) + 1
                \/ Len(reviews') = Len(reviews) + 1]_vars

\* an unknown token has been answered 401 by create_review after a
\* transaction and a review of a logged-in user were recorded
C27_Witness ==
    /\ response.handler = "create_review" /\ response.status = 401
    /\ Len(transactions) = 1 /\ Len(reviews) = 1
    /\ sessions # EmptyDict

(***************************************************************************)
(* C26: create_user rejects a registration ('User already exists', 400)    *)
(* exactly when an existing user has the same email or the same phone      *)
(* number; a registration without a phone number is not rejected because   *)
(* an existing user has no phone number either.                            *)
(***************************************************************************)
C26_RejectedIffSameEmailOrPhone ==
    ent_response.handler = "register_user" =>
        (ent_response.status = 400 <=> ent_response.duplicate)

(***************************************************************************)
(* C25: a protected endpoint answers a bearer token that is a refresh      *)
(* token (type 'refresh') with 401; only an access token authenticates.    *)
(***************************************************************************)
C25_RefreshTokenRejected ==
    (/\ ent_response.handler = "get_user_profile"
     /\ ent_response.token.type # "access") => ent_response.status = 401

(***************************************************************************)
(* C24: in every interleaving of concurrent register requests, no two      *)
(* entries of the users store have the same email address.                 *)
(***************************************************************************)
C24_EmailsUnique ==
    \A i, j \in DOMAIN pre_users :
        i # j => pre_users[i] # pre_users[j]

(***************************************************************************)
(* C23: after any sequence of requests every token in db.sessions maps to  *)
(* a user id that is in db.users, so neither get_profile nor               *)
(* get_recommendations answers any token with 404 'User not found'.        *)
(***************************************************************************)
C23_SessionsNameUsers ==
    /\ \A t \in DOMAIN sessions : sessions[t] \in DOMAIN users
    /\ \A token \in TokenInputs :
          /\ get_profile(token).status # 404
          /\ get_recommendations(token).status # 404
    /\ response.status # 404

\* a transaction and two reviews have been recorded, a user that logged in
\* twice has logged out once, and get_profile has answered the open session
C23_Witness ==
    /\ Len(transactions) = 1 /\ Len(reviews) = 2
    /\ <<1, 0>> \notin DOMAIN sessions
    /\ <<1, 1>> \in DOMAIN sessions
    /\ response.handler = "get_profile"
    /\ response.status = 200 /\ response.caller = 1

(***************************************************************************)
(* C22: create_review sets the partner's rating to (previous rating + new  *)
(* rating) / 2, so after the reviews r1 .. rn of a partner its rating is   *)
(* (initial + r1 + 2 r2 + .. + 2^(n-1) rn) / 2^n; two reviews with         *)
(* different ratings give a rating that differs from the one the other     *)
(* order of arrival gives, and from the mean of the two ratings.           *)
(***************************************************************************)
C22_RunningAverageDependsOnOrder ==
    LET rs == SelectSeq(reviews, LAMBDA r : r.partner_id = 1)
        n == Len(rs)
        RECURSIVE weighted(_)
        weighted(i) ==
            IF i = 0 THEN load_partners[1].rating
            ELSE weighted(i - 1) + (2 ^ (i - 1)) * rs[i].rating * RatingScale
        rating == partners[1].rating
    IN  /\ (2 ^ n) * rating = weighted(n)
        /\ (n = 2 /\ rs[1].rating # rs[2].rating) =>
              /\ 4 * rating # load_partners[1].rating
                               + (rs[2].rating + 2 * rs[1].rating) * RatingScale
              /\ 2 * rating # (rs[1].rating + rs[2].rating) * RatingScale

\* partner 1 (initial rating 4.0) reviewed with 1 and then with 5 is rated
\* 3.75; the other order gives 2.75, the mean of the two reviews is 3
C22_Witness ==
    /\ Len(reviews) = 2
    /\ reviews[1].partner_id = 1 /\ reviews[1].rating = 1
    /\ reviews[2].partner_id = 1 /\ reviews[2].rating = 5
    /\ 4 * partners[1].rating = 15 * RatingScale

(***************************************************************************)
(* C21: in every interleaving of the collaborative fit and the content fit *)
(* of one run, neither fit changes the matrix or the feature table, a fit  *)
(* never changes the other fit's model, and when both have ended the       *)
(* fitted models are those of running the two fits one after the other.    *)
(***************************************************************************)
C21_FitsIndependent ==
    [][/\ fit_matrix' = fit_matrix /\ fit_features' = fit_features
       /\ \A f \in Fits :
             fit_pc'[f] = fit_pc[f] => fit_models'[f] = fit_models[f]
       /\ (\A f \in Fits : fit_pc'[f] = "fitted") =>
             fit_models' = sequential_fits]_vars

\* both fits had started before either ended, and both have ended
C21_Witness ==
    /\ \A f \in Fits : fit_pc[f] = "fitted"
    /\ \A f \in Fits : fit_local[f].models = [g \in Fits |-> NotFitted]
    /\ fit_matrix = 2 /\ fit_features = 3

(***************************************************************************)
(* C20: between runs, after any sequence of successful and failed runs,    *)
(* the id mappings and the fitted factors the trainer holds come from the  *)
(* same run: the mappings were assigned by the run that fitted the model,  *)
(* and they index exactly the users and partners of the fitted matrix.     *)
(***************************************************************************)
C20_MappingsMatchFactors ==
    (/\ pc \in {"idle", "done", "failed"}
     /\ "collaborative_filtering" \in DOMAIN models) =>
        LET m == models["collaborative_filtering"]
        IN  /\ m.run = map_run
            /\ DOMAIN user_mapping = DOMAIN m.matrix
            /\ \A u \in DOMAIN m.matrix :
                  DOMAIN item_mapping = DOMAIN m.matrix[u]

C1_ReaderSeesOneRun ==
    \/ map_run = 0 /\ models = EmptyDict
    \/ /\ "collaborative_filtering" \in DOMAIN models
       /\ models["collaborative_filtering"].run = map_run

(***************************************************************************)
(* C2: when a training run has failed, the trainer's fields are exactly    *)
(* what they were when the run started.                                    *)
(***************************************************************************)
C2_FailedRunCommitsNothing ==
    pc = "failed" => Artifact = snapshot

(***************************************************************************)
(* C3: a request-time lookup that misses on user:U is answered in that     *)
(* very step with the trending fallback list, marked as coming from the    *)
(* trending ranker, with status ok and not as degraded; and no step that   *)
(* answers a request changes anything of the trainer: no run is started    *)
(* and none advances.                                                      *)
(***************************************************************************)
C3_MissFallsBackToTrending ==
    [][/\ served'.lookup = "miss" =>
             /\ served'.caller \in TrainUsers
             /\ served'.source = "trending"
             /\ served'.status = "ok"
             /\ ~served'.degraded
             /\ served'.recommendations = trending_rank(trending_df)
       /\ served' # served => UNCHANGED trainerVars]_vars

\* a user was answered on a miss with a non-empty trending list while a
\* fitted model exists, the user's key is absent and a run is in flight
C3_Witness ==
    /\ served.lookup = "miss"
    /\ served.caller \in TrainUsers
    /\ served.recommendations # <<>>
    /\ "collaborative_filtering" \in DOMAIN models
    /\ cache_up
    /\ ~cache[user_key(served.caller)].hit
    /\ pc = "matrix"

C7_CoolDownExcluded ==
    ranked # NotScored =>
        \A i \in 1..Len(ranked) :
           \/ redeemed_days_ago[ranked[i]] = NeverRedeemed
           \/ redeemed_days_ago[ranked[i]] >= cool_down_days

\* a partner all three sources proposed, with the top blended score, was
\* redeemed today and is left out of a list that holds the other partners
C7_Witness ==
    /\ ranked = <<3, 2>>
    /\ 1 \in cf_top \cap cb_similar \cap preferred
    /\ redeemed_days_ago[1] = 0
    /\ \A p \in ScorerPartners : final(1) >= final(p)
    /\ final(1) > 0

(***************************************************************************)
(* C8: the recency weight is 1.0 up to 7 days of age, 0.9 up to 30, 0.7   *)
(* up to 90 and 0.5 beyond (in tenths: 10, 9, 7, 5), and of two            *)
(* interactions the older one never has the larger weight.                 *)
(***************************************************************************)
C8_RecencyStep ==
    recency_weight # <<>> =>
        /\ \A i \in 1..2 :
              recency_weight[i] =
                  CASE days_ago[i] <= 7 -> 10
                    [] days_ago[i] > 7 /\ days_ago[i] <= 30 -> 9
                    [] days_ago[i] > 30 /\ days_ago[i] <= 90 -> 7
                    [] OTHER -> 5
        /\ days_ago[1] <= days_ago[2] => recency_weight[1] >= recency_weight[2]

\* weights on both sides of the 7-day step have been computed
C8_Witness ==
    /\ recency_weight # <<>>
    /\ days_ago = <<7, 8>>
    /\ recency_weight = <<10, 9>>

(***************************************************************************)
(* C9: after the filter a user has rows if and only if the user had at     *)
(* least min_interactions input rows; a retained user keeps every row and  *)
(* a user below the threshold keeps none.                                  *)
(***************************************************************************)
C9_FilterByThreshold ==
    filtered_df # <<>> =>
        \A u \in FeatureUsers :
           LET n == interaction_count(interactions_df, u)
           IN  /\ (\E p \in FeaturePartners : filtered_df[<<u, p>>] > 0)
                     <=> n >= min_interactions
               /\ n >= min_interactions =>
                     \A p \in FeaturePartners :
                        filtered_df[<<u, p>>] = interactions_df[<<u, p>>]
               /\ n < min_interactions =>
                     \A p \in FeaturePartners : filtered_df[<<u, p>>] = 0

\* one user with exactly min_interactions rows is kept while the other,
\* one row short, is dropped
C9_Witness ==
    /\ filtered_df # <<>>
    /\ interaction_count(interactions_df, 1) = min_interactions
    /\ interaction_count(interactions_df, 2) = min_interactions - 1
    /\ interaction_count(filtered_df, 1) = min_interactions
    /\ interaction_count(filtered_df, 2) = 0

====
